---- MODULE Spec2Model ----
(***************************************************************************)
(* A model of main.py: an HTTP server on raw sockets.  One thread per      *)
(* accepted connection runs HTTPServer.handle_client; every datastore      *)
(* call goes through ThreadSafeDB.execute, which holds one Lock.           *)
(*                                                                         *)
(* Text is modelled as a sequence of tokens.  The tokens " ", "?", "&" and *)
(* "=" are the delimiters the code splits on; every other token stands for *)
(* a non-empty piece of text holding none of them, and a sequence of       *)
(* tokens is their concatenation (<<>> is the empty string).               *)
(***************************************************************************)
EXTENDS Integers, Sequences, FiniteSets, TLC

\* Worker threads alive at the same time.
NumWorkers == 2

\* Connections the sequential specification accepts, one after the other.
MaxRequests == 3

(***************************************************************************)
(* Text helpers: str.split and friends.                                    *)
(***************************************************************************)
HasTok(s, t) == \E i \in 1..Len(s) : s[i] = t

IndexOf(s, t) ==
    IF HasTok(s, t)
    THEN CHOOSE i \in 1..Len(s) : s[i] = t /\ \A j \in 1..(i - 1) : s[j] # t
    ELSE 0

\* str.split(t): the pieces between the occurrences of t, empty ones kept.
RECURSIVE Split(_, _)
Split(s, t) ==
    LET i == IndexOf(s, t)
    IN  IF i = 0 THEN <<s>>
        ELSE <<SubSeq(s, 1, i - 1)>> \o Split(SubSeq(s, i + 1, Len(s)), t)

\* str.split(t, 1): at most one cut, at the first occurrence of t.
SplitOnce(s, t) ==
    LET i == IndexOf(s, t)
    IN  IF i = 0 THEN <<s>>
        ELSE <<SubSeq(s, 1, i - 1), SubSeq(s, i + 1, Len(s))>>

NonEmpty(s) == s # <<>>

\* str.split() with no argument: the runs between whitespace, empty ones dropped.
SplitWs(s) == SelectSeq(Split(s, " "), NonEmpty)

(***************************************************************************)
(* HTTPServer._parse_parameters                                            *)
(***************************************************************************)
HasEq(p) == HasTok(p, "=")

EmptyDict == [k \in {} |-> <<>>]

\* dict(seq of [key, value]): a later pair overwrites an earlier one.
DictOf(items) ==
    [k \in {items[i][1] : i \in 1..Len(items)} |->
        LET last == CHOOSE i \in 1..Len(items) :
                        /\ items[i][1] = k
                        /\ \A j \in (i + 1)..Len(items) : items[j][1] # k
        IN  items[last][2]]

\* dict(param.split('=') for param in params_str.split('&') if '=' in param):
\* dict() raises ValueError on an element that is not a pair.
parse_parameters(params_str) ==
    LET kept  == SelectSeq(Split(params_str, "&"), HasEq)
        items == [i \in 1..Len(kept) |-> Split(kept[i], "=")]
    IN  IF \E i \in 1..Len(items) : Len(items[i]) # 2
        THEN [ok |-> FALSE, dict |-> EmptyDict]
        ELSE [ok |-> TRUE, dict |-> DictOf(items)]

\* parameters.get(key): None when the key is absent.
Get(d, key) ==
    IF key \in DOMAIN d THEN [present |-> TRUE, val |-> d[key]]
    ELSE [present |-> FALSE, val |-> <<>>]

\* Python truth of parameters.get(key): None and '' are false.
Truthy(g) == g.present /\ g.val # <<>>

(***************************************************************************)
(* JSON values and bodies.  A value keeps its type and its text.           *)
(***************************************************************************)
JStr(v) == [t |-> "str", v |-> v]
JNum(v) == [t |-> "num", v |-> v]
JNull == [t |-> "null", v |-> ""]
JList == [t |-> "list", v |-> ""]

Columns == <<"email", "password", "message">>

NoObj == [k \in {} |-> JNull]

\* body: None (no blank line in the request), '' or text; text is malformed JSON,
\* a JSON object, or a JSON number.
NoBody == [kind |-> "none", obj |-> NoObj]
EmptyBody == [kind |-> "empty", obj |-> NoObj]
Malformed == [kind |-> "malformed", obj |-> NoObj]
Scalar == [kind |-> "scalar", obj |-> NoObj]
Object(o) == [kind |-> "object", obj |-> o]

\* `not body`
BodyFalsy(body) == body.kind \in {"none", "empty"}

(***************************************************************************)
(* The users table of _init_db and the statements the handlers run.        *)
(*   id INTEGER PRIMARY KEY AUTOINCREMENT, email/password/message TEXT     *)
(*   NOT NULL.  db = [users: set of rows, seq: the largest id ever given]. *)
(***************************************************************************)
Digits == <<"0", "1", "2", "3", "4", "5", "6", "7", "8", "9">>

IsDigit(t) == \E i \in 1..Len(Digits) : Digits[i] = t

DigitVal(t) == (CHOOSE i \in 1..Len(Digits) : Digits[i] = t) - 1

RECURSIVE Decimal(_)
Decimal(s) ==
    IF s = <<>> THEN 0
    ELSE 10 * Decimal(SubSeq(s, 1, Len(s) - 1)) + DigitVal(s[Len(s)])

NoInt == -1

\* `id = ?` with a text argument: the INTEGER column's affinity turns text that
\* reads as an integer into that integer; other text equals no id.
AsInteger(text) ==
    IF text # <<>> /\ \A i \in 1..Len(text) : IsDigit(text[i])
    THEN Decimal(text) ELSE NoInt

IdMatches(row, text) == row.id = AsInteger(text)

\* A TEXT column stores a number as its text.
Affinity(v) == IF v.t = "num" THEN JStr(v.v) ELSE v

Max(a, b) == IF a >= b THEN a ELSE b

MaxRowId(users) ==
    IF users = {} THEN 0
    ELSE CHOOSE n \in {r.id : r \in users} : \A r \in users : r.id <= n

\* A plain INTEGER PRIMARY KEY: one more than the largest id in the table now.
NextRowIdOfTable(db) == MaxRowId(db.users) + 1

\* AUTOINCREMENT: one more than the largest id that ever existed in the table.
NextRowId(db) == Max(db.seq, MaxRowId(db.users)) + 1

RECURSIVE SortById(_)
SortById(S) ==
    IF S = {} THEN <<>>
    ELSE LET m == CHOOSE r \in S : \A q \in S : r.id <= q.id
         IN  <<m>> \o SortById(S \ {m})

\* The wrong column is selected as the message.
SelectedPassword(row) == [id |-> row.id, email |-> row.email, message |-> row.password]

\* SELECT *: every column is selected.
SelectedEveryColumn(row) == row

\* SELECT id, email, message: the password column is not selected.
Selected(row) == [id |-> row.id, email |-> row.email, message |-> row.message]

SelectRows(S) ==
    LET sorted == SortById(S)
    IN  [i \in 1..Len(sorted) |-> Selected(sorted[i])]

SelectOne(id) == [op |-> "select_one", id |-> id, vals |-> NoObj]
SelectAll == [op |-> "select_all", id |-> <<>>, vals |-> NoObj]
Insert(vals) == [op |-> "insert", id |-> <<>>, vals |-> vals]
Delete(id) == [op |-> "delete", id |-> id, vals |-> NoObj]
Update(vals, id) == [op |-> "update", id |-> id, vals |-> vals]
NoStmt == [op |-> "none", id |-> <<>>, vals |-> NoObj]

\* sqlite3 binds str, int, float and None; a list or dict raises ProgrammingError.
BindFails(vals) == \E c \in DOMAIN vals : vals[c].t = "list"

NullColumns(vals) == {i \in 1..Len(Columns) :
                        Columns[i] \in DOMAIN vals /\ vals[Columns[i]].t = "null"}

\* The columns are declared without NOT NULL.
NotNullUnchecked(vals) == 0

\* The NOT NULL constraints of the table: the first offending column, 0 for none.
NotNullViolation(vals) ==
    IF NullColumns(vals) = {} THEN 0
    ELSE CHOOSE i \in NullColumns(vals) : \A j \in NullColumns(vals) : i <= j

NotNullMessage(i) ==
    CASE i = 1 -> "NOT NULL constraint failed: users.email"
      [] i = 2 -> "NOT NULL constraint failed: users.password"
      [] OTHER -> "NOT NULL constraint failed: users.message"

BindMessage == "Error binding parameter: type 'list' is not supported"

Failed(db, msg) ==
    [ok |-> FALSE, err |-> msg, db |-> db, rows |-> <<>>, lastrowid |-> 0]

Done(db, rows, lastrowid) ==
    [ok |-> TRUE, err |-> "", db |-> db, rows |-> rows, lastrowid |-> lastrowid]

SqlInsert(db, vals) ==
    IF BindFails(vals) THEN Failed(db, BindMessage)
    ELSE IF NotNullViolation(vals) # 0
    THEN Failed(db, NotNullMessage(NotNullViolation(vals)))
    ELSE LET id  == NextRowId(db)
             row == [id |-> id,
                     email |-> Affinity(vals["email"]),
                     password |-> Affinity(vals["password"]),
                     message |-> Affinity(vals["message"])]
         IN  Done([users |-> db.users \cup {row}, seq |-> id], <<>>, id)

Updated(row, vals) ==
    [id |-> row.id,
     email |-> IF "email" \in DOMAIN vals THEN Affinity(vals["email"]) ELSE row.email,
     password |-> IF "password" \in DOMAIN vals THEN Affinity(vals["password"])
                  ELSE row.password,
     message |-> IF "message" \in DOMAIN vals THEN Affinity(vals["message"])
                 ELSE row.message]

\* The UPDATE has no WHERE clause: every row is set.
SqlUpdateEveryRow(db, vals, id) ==
    IF BindFails(vals) THEN Failed(db, BindMessage)
    ELSE IF db.users # {} /\ NotNullViolation(vals) # 0
    THEN Failed(db, NotNullMessage(NotNullViolation(vals)))
    ELSE Done([users |-> {Updated(r, vals) : r \in db.users}, seq |-> db.seq], <<>>, 0)

SqlUpdate(db, vals, id) ==
    LET hit == {r \in db.users : IdMatches(r, id)}
    IN  IF BindFails(vals) THEN Failed(db, BindMessage)
        ELSE IF hit # {} /\ NotNullViolation(vals) # 0
        THEN Failed(db, NotNullMessage(NotNullViolation(vals)))
        ELSE Done([users |-> (db.users \ hit) \cup {Updated(r, vals) : r \in hit},
                   seq |-> db.seq], <<>>, 0)

\* The DELETE fails when no row has the id.
SqlDeleteExisting(db, id) ==
    IF \E r \in db.users : IdMatches(r, id)
    THEN Done([users |-> {r \in db.users : ~IdMatches(r, id)}, seq |-> db.seq], <<>>, 0)
    ELSE Failed(db, "no such user")

SqlDelete(db, id) ==
    Done([users |-> {r \in db.users : ~IdMatches(r, id)}, seq |-> db.seq], <<>>, 0)

SqlSelectOne(db, id) ==
    Done(db, SelectRows({r \in db.users : IdMatches(r, id)}), 0)

SqlSelectAll(db) == Done(db, SelectRows(db.users), 0)

\* cursor.execute(query, args) on a fresh connection, before the commit.
Run(stmt, db) ==
    CASE stmt.op = "insert" -> SqlInsert(db, stmt.vals)
      [] stmt.op = "update" -> SqlUpdate(db, stmt.vals, stmt.id)
      [] stmt.op = "delete" -> SqlDelete(db, stmt.id)
      [] stmt.op = "select_one" -> SqlSelectOne(db, stmt.id)
      [] OTHER -> SqlSelectAll(db)

(***************************************************************************)
(* Responses.  _send_response wraps a status code and a payload; _about    *)
(* sends an HTML page.  A payload keeps the fields json.dumps would write. *)
(***************************************************************************)
Payload(tag, text, id, ref, rows) ==
    [tag |-> tag, text |-> text, id |-> id, ref |-> ref,
     count |-> Len(rows), rows |-> rows]

Error(msg) == Payload("error", msg, 0, <<>>, <<>>)
Created(user_id) == Payload("created", "User created successfully", user_id, <<>>, <<>>)
Confirm(what, user_id) == Payload("message", what, 0, user_id, <<>>)
UserData(user) == Payload("user", "", user.id, <<>>, <<user>>)
ListData(users) == Payload("list", "", 0, <<>>, users)
AboutPage == Payload("html", "About", 0, <<>>, <<>>)

Response(status_code, content) == [status |-> status_code, data |-> content]

NoResponse == Response(0, Error(""))

(***************************************************************************)
(* What a piece of the handler does next: send a response, call            *)
(* self.db.execute, raise, or return.  `layer` is the try block the step   *)
(* runs in: "users" (_handle_users' try), "users_except" (its except       *)
(* clause), "top" (handle_client's try), "top_except" (its except clause). *)
(***************************************************************************)
Plan(do, layer, resp, stmt, err) ==
    [do |-> do, layer |-> layer, resp |-> resp, stmt |-> stmt, err |-> err]

Send(layer, status_code, content) ==
    Plan("send", layer, Response(status_code, content), NoStmt, "")
Call(stmt) == Plan("call", "users", NoResponse, stmt, "")
Raise(layer, msg) == Plan("raise", layer, NoResponse, NoStmt, msg)
Return == Plan("return", "top", NoResponse, NoStmt, "")

IdKey == <<"id">>

\* The id is looked up whenever the parameter is present, the empty one included.
get_users_present(parameters) ==
    LET user_id == Get(parameters, IdKey)
    IN  IF user_id.present THEN Call(SelectOne(user_id.val)) ELSE Call(SelectAll)

\* _get_users, up to its datastore call.
get_users(parameters) ==
    LET user_id == Get(parameters, IdKey)
    IN  IF Truthy(user_id) THEN Call(SelectOne(user_id.val)) ELSE Call(SelectAll)

\* _get_users, from the datastore call's result on.
get_users_reply(stmt, result) ==
    IF stmt.op = "select_one"
    THEN IF result.rows # <<>>
         THEN Send("users", 200, UserData(result.rows[1]))
         ELSE Send("users", 404, Error("User not found"))
    ELSE Send("users", 200, ListData(result.rows))

ScalarMessage == "argument of type 'int' is not iterable"

\* _create_user, up to its datastore call.
create_user(body) ==
    IF BodyFalsy(body) THEN Raise("users", "Request body is empty")
    ELSE IF body.kind = "malformed" THEN Raise("users", "Invalid JSON format")
    ELSE IF body.kind = "scalar" THEN Raise("users", ScalarMessage)
    ELSE IF ~(\A i \in 1..Len(Columns) : Columns[i] \in DOMAIN body.obj)
    THEN Raise("users", "Missing required fields: email, password, message")
    ELSE Call(Insert([c \in {"email", "password", "message"} |-> body.obj[c]]))

create_user_reply(result) == Send("users", 201, Created(result.lastrowid))

\* _delete_user, up to its datastore call.
delete_user(parameters) ==
    LET user_id == Get(parameters, IdKey)
    IN  IF ~Truthy(user_id) THEN Raise("users", "Missing user id parameter")
        ELSE Call(Delete(user_id.val))

delete_user_reply(stmt) == Send("users", 200, Confirm("deleted", stmt.id))

\* The columns an UPDATE sets: the recognised keys of the body.
UpdateFields(data) ==
    [c \in {"email", "password", "message"} \cap DOMAIN data |-> data[c]]

\* _update_user, up to its datastore call.
update_user(parameters, body) ==
    LET user_id == Get(parameters, IdKey)
    IN  IF ~Truthy(user_id) THEN Raise("users", "Missing user id parameter")
        ELSE IF BodyFalsy(body) THEN Raise("users", "Request body is empty")
        ELSE IF body.kind = "malformed" THEN Raise("users", "Invalid JSON format")
        ELSE IF body.kind = "scalar" THEN Raise("users", ScalarMessage)
        ELSE IF DOMAIN UpdateFields(body.obj) = {}
        THEN Raise("users", "No fields to update")
        ELSE Call(Update(UpdateFields(body.obj), user_id.val))

update_user_reply(stmt) == Send("users", 200, Confirm("updated", stmt.id))

\* No except clause: the exception leaves _handle_users.
UsersExceptNone(plan) == plan

\* The except clause of _handle_users: any exception becomes a 400 with its text.
UsersExcept(plan) ==
    IF plan.do = "raise" THEN Send("users_except", 400, Error(plan.err)) ELSE plan

\* _handle_users, up to the first datastore call or socket write.
handle_users(method, parameters, body) ==
    UsersExcept(
        CASE method = <<"GET">> -> get_users(parameters)
          [] method = <<"POST">> -> create_user(body)
          [] method = <<"DELETE">> -> delete_user(parameters)
          [] method = <<"PATCH">> -> update_user(parameters, body)
          [] OTHER -> Send("users", 405, Error("Method not allowed")))

\* A handler from the return of self.db.execute on.
Reply(stmt, result) ==
    CASE stmt.op = "insert" -> create_user_reply(result)
      [] stmt.op = "delete" -> delete_user_reply(stmt)
      [] stmt.op = "update" -> update_user_reply(stmt)
      [] OTHER -> get_users_reply(stmt, result)

\* The except clause of handle_client: any exception becomes the generic 500.
TopExcept(plan) ==
    IF plan.do = "raise"
    THEN Send("top_except", 500, Error("Internal server error")) ELSE plan

\* What the handler does when self.db.execute returns or raises.
AfterExecute(stmt, result) ==
    IF result.ok THEN Reply(stmt, result)
    ELSE TopExcept(UsersExcept(Raise("users", result.err)))

\* path.split('?', 1) and _parse_parameters, when the path holds a '?'.
Target(word) ==
    IF HasTok(word, "?")
    THEN LET cut == SplitOnce(word, "?")
             parsed == parse_parameters(cut[2])
         IN  [ok |-> parsed.ok, path |-> cut[1], parameters |-> parsed.dict]
    ELSE [ok |-> TRUE, path |-> word, parameters |-> EmptyDict]

\* The routing of handle_client.
Route(method, path, parameters, body) ==
    IF path = <<"/about">> THEN Send("top", 200, AboutPage)
    ELSE IF path = <<"/users">> THEN handle_users(method, parameters, body)
    ELSE Send("top", 404, Error("Path not found"))

\* `if not raw_request: return` is missing: the empty text is parsed like any
\* other and its first line has no words.
handle_client_unchecked(raw) ==
    TopExcept(
        IF ~raw.utf8 THEN Raise("top", "UnicodeDecodeError")
        ELSE LET words == IF raw.empty THEN <<>> ELSE SplitWs(raw.line)
             IN  IF Len(words) # 3 THEN Raise("top", "ValueError: unpack")
                 ELSE LET target == Target(words[2])
                      IN  IF ~target.ok THEN Raise("top", "ValueError: dict")
                          ELSE Route(words[1], target.path, target.parameters,
                                     raw.body))

\* The first two words of the first line are taken, however many follow.
handle_client_two_words(raw) ==
    IF raw.empty THEN Return
    ELSE TopExcept(
        IF ~raw.utf8 THEN Raise("top", "UnicodeDecodeError")
        ELSE LET words == SplitWs(raw.line)
             IN  IF Len(words) < 2 THEN Raise("top", "ValueError: unpack")
                 ELSE LET target == Target(words[2])
                      IN  IF ~target.ok THEN Raise("top", "ValueError: dict")
                          ELSE Route(words[1], target.path, target.parameters,
                                     raw.body))

\* handle_client from the return of conn.recv to the first datastore call or
\* socket write.  raw = [empty, utf8, line, body]: whether recv returned b'',
\* whether the bytes decode, the first line, and what follows the blank line.
handle_client(raw) ==
    IF raw.empty THEN Return
    ELSE TopExcept(
        IF ~raw.utf8 THEN Raise("top", "UnicodeDecodeError")
        ELSE LET words == SplitWs(raw.line)
             IN  IF Len(words) # 3 THEN Raise("top", "ValueError: unpack")
                 ELSE LET target == Target(words[2])
                      IN  IF ~target.ok THEN Raise("top", "ValueError: dict")
                          ELSE Route(words[1], target.path, target.parameters,
                                     raw.body))

(***************************************************************************)
(* State.                                                                  *)
(*   db      the database file: [users, seq]                               *)
(*   schema  whether the users table exists                                *)
(*   lock    the thread holding ThreadSafeDB.lock (Free, Main or a worker) *)
(*   conns   the threads holding an open sqlite3 connection                *)
(*   main    where the main thread is                                      *)
(*   accepted  connections accepted so far                                 *)
(*   wk      the worker threads' local state                               *)
(*   hist    history of the run, read by the properties only: the user_ids *)
(*           answered with a 201, in order; the creation requests          *)
(*           received; the creations no PATCH or DELETE has touched since  *)
(***************************************************************************)
VARIABLES db, schema, lock, conns, main, accepted, wk, hist

vars == <<db, schema, lock, conns, main, accepted, wk, hist>>

Workers == 1..NumWorkers
Main == 0
Free == -1

EmptyDb == [users |-> {}, seq |-> 0]

NoResult == Done(EmptyDb, <<>>, 0)

NoRaw == [empty |-> TRUE, utf8 |-> TRUE, line |-> <<>>, body |-> NoBody]

\* A worker slot with no thread in it.  stmt is the statement of the handler's
\* datastore call and sent the responses written or attempted, in order.
\* calls, changed, hit, failed, orig and seen are history: the datastore calls
\* made, whether the commit changed the table, whether the statement's id
\* matched a row, the text of the exception the call raised ("" for none), the
\* creation the looked-up id stems from, the creations answered before a list
\* request arrived, and the largest user_id answered before a creation request
\* arrived.
Idle ==
    [pc |-> "idle", raw |-> NoRaw, peer |-> "reads", disk |-> "ok",
     plan |-> Return, stmt |-> NoStmt, result |-> NoResult, sent |-> <<>>,
     calls |-> 0, changed |-> FALSE, hit |-> FALSE, failed |-> "",
     orig |-> <<>>, seen |-> -1, floor |-> 0]

Init ==
    /\ db = EmptyDb
    /\ schema = FALSE
    /\ lock = Free
    /\ conns = {}
    /\ main = "start"
    /\ accepted = 0
    /\ wk = [w \in Workers |-> Idle]
    /\ hist = [issued |-> <<>>, posts |-> 0, created |-> {}]

\* The lock does not exclude: it is taken whoever holds it.
AcquirableAlways(holder) == TRUE

\* Lock.acquire: only a free lock can be taken.
Acquirable(holder) == holder = Free

(***************************************************************************)
(* The main thread: ThreadSafeDB.__init__ / _init_db, then start_server.   *)
(***************************************************************************)
InitDbEnter ==
    /\ main = "start"
    /\ Acquirable(lock)
    /\ lock' = Main
    /\ conns' = conns \cup {Main}
    /\ main' = "init_db"
    /\ UNCHANGED <<db, schema, accepted, wk, hist>>

\* CREATE TABLE IF NOT EXISTS, commit, close; the with block releases the lock.
InitDbExit ==
    /\ main = "init_db"
    /\ schema' = TRUE
    /\ conns' = conns \ {Main}
    /\ lock' = Free
    /\ main' = "constructed"
    /\ UNCHANGED <<db, accepted, wk, hist>>

\* start_server: socket, bind, listen.
Listen ==
    /\ main = "constructed"
    /\ main' = "listening"
    /\ UNCHANGED <<db, schema, lock, conns, accepted, wk, hist>>

\* The worker threads are daemons: they end with the main thread.
InterruptEndsWorkers ==
    /\ main = "listening"
    /\ main' = "closed"
    /\ wk' = [w \in Workers |-> Idle]
    /\ conns' = {}
    /\ lock' = Free
    /\ UNCHANGED <<db, schema, accepted, hist>>

\* KeyboardInterrupt in the accept loop: logged, then serv_sock.close().
Interrupt ==
    /\ main = "listening"
    /\ main' = "closed"
    /\ UNCHANGED <<db, schema, lock, conns, accepted, wk, hist>>

\* serv_sock.accept() and Thread(target=self.handle_client).start().
Accept(slots, limit) ==
    /\ main = "listening"
    /\ accepted < limit
    /\ \E w \in slots :
        /\ wk[w].pc = "idle"
        /\ \A v \in slots : v < w => wk[v].pc # "idle"
        /\ wk' = [wk EXCEPT ![w] = [Idle EXCEPT !.pc = "recv"]]
    /\ accepted' = accepted + 1
    /\ UNCHANGED <<db, schema, lock, conns, main, hist>>

(***************************************************************************)
(* A worker thread: handle_client.                                         *)
(***************************************************************************)
IsInsert(plan) == plan.do = "call" /\ plan.stmt.op = "insert"

\* The largest number of a sequence of naturals, 0 for none.
MaxOf(ids) ==
    IF ids = <<>> THEN 0
    ELSE CHOOSE n \in {ids[i] : i \in 1..Len(ids)} :
            \A i \in 1..Len(ids) : ids[i] <= n

\* conn.recv returns; the request is parsed and routed up to the first datastore
\* call or socket write.  c = [raw, peer, disk]: the bytes read, whether the peer
\* stays to read the answer, whether the disk fails under this connection's
\* statement.
Recv(w, c) ==
    /\ wk[w].pc = "recv"
    /\ LET plan == handle_client(c.raw)
       IN  /\ wk' = [wk EXCEPT ![w] =
                    [@ EXCEPT !.raw = c.raw, !.peer = c.peer, !.disk = c.disk,
                              !.plan = plan, !.stmt = plan.stmt,
                              !.pc = CASE plan.do = "return" -> "close"
                                       [] plan.do = "call" -> "db_wait"
                                       [] OTHER -> "send",
                              !.seen = IF /\ plan.do = "call"
                                          /\ plan.stmt.op = "select_all"
                                          /\ Len(hist.issued) = hist.posts
                                       THEN hist.posts ELSE -1,
                              !.floor = IF IsInsert(plan) THEN MaxOf(hist.issued)
                                        ELSE 0]]
           /\ hist' = [hist EXCEPT !.posts = IF IsInsert(plan) THEN @ + 1 ELSE @]
    /\ UNCHANGED <<db, schema, lock, conns, main, accepted>>

\* ThreadSafeDB.execute: `with self.lock`, then sqlite3.connect.
ExecuteEnter(w) ==
    /\ wk[w].pc = "db_wait"
    /\ Acquirable(lock)
    /\ lock' = w
    /\ conns' = conns \cup {w}
    /\ wk' = [wk EXCEPT ![w].pc = "db_open", ![w].calls = @ + 1]
    /\ UNCHANGED <<db, schema, main, accepted, hist>>

\* cursor.execute(query, args), then fetchall() or lastrowid, on the file `store`.
ExecutedOn(store, stmt, disk) ==
    IF disk # "ok" THEN Failed(store, "disk I/O error")
    ELSE IF ~schema THEN Failed(store, "no such table: users")
    ELSE Run(stmt, store)

Executed(stmt, disk) == ExecutedOn(db, stmt, disk)

ExecuteStmt(w) ==
    /\ wk[w].pc = "db_open"
    /\ LET stmt == wk[w].stmt
           result == Executed(stmt, wk[w].disk)
           known == {c \in hist.created : c.id = AsInteger(stmt.id)}
       IN  wk' = [wk EXCEPT ![w] =
                    [@ EXCEPT !.result = result,
                              !.pc = IF result.ok THEN "db_commit" ELSE "db_close",
                              !.failed = result.err,
                              !.hit = \E r \in db.users : IdMatches(r, stmt.id),
                              !.orig = IF stmt.op = "select_one" /\ known # {}
                                       THEN <<CHOOSE c \in known : TRUE>>
                                       ELSE <<>>]]
    /\ UNCHANGED <<db, schema, lock, conns, main, accepted, hist>>

\* The commit is left out: the file keeps its content.
CommittedNever(old, new) == old

\* conn.commit(): what the statement did becomes the file's content.
Committed(old, new) == new

ExecuteCommit(w) ==
    /\ wk[w].pc = "db_commit"
    /\ LET stmt == wk[w].stmt
           result == wk[w].result
       IN  /\ db' = Committed(db, result.db)
           /\ wk' = [wk EXCEPT ![w].pc = "db_close",
                               ![w].changed = (db'.users # db.users)]
           /\ hist' = [hist EXCEPT !.created =
                    CASE stmt.op = "insert" ->
                           @ \cup {[id |-> result.lastrowid,
                                    email |-> stmt.vals["email"],
                                    message |-> stmt.vals["message"]]}
                      [] stmt.op \in {"update", "delete"} ->
                           {c \in @ : c.id # AsInteger(stmt.id)}
                      [] OTHER -> @]
    /\ UNCHANGED <<schema, lock, conns, main, accepted>>

\* conn.close() follows the commit without a finally clause: an exception
\* skips it.
ExecuteExitLeavesOpen(w) ==
    /\ wk[w].pc = "db_close"
    /\ conns' = IF wk[w].result.ok THEN conns \ {w} ELSE conns
    /\ lock' = Free
    /\ wk' = [wk EXCEPT ![w] =
                [@ EXCEPT !.pc = "send",
                          !.result = NoResult,
                          !.plan = AfterExecute(wk[w].stmt, wk[w].result)]]
    /\ UNCHANGED <<db, schema, main, accepted, hist>>

\* The lock is released after the commit only: an exception leaves it held.
ExecuteExitKeepsLock(w) ==
    /\ wk[w].pc = "db_close"
    /\ conns' = conns \ {w}
    /\ lock' = IF wk[w].result.ok THEN Free ELSE lock
    /\ wk' = [wk EXCEPT ![w] =
                [@ EXCEPT !.pc = "send",
                          !.result = NoResult,
                          !.plan = AfterExecute(wk[w].stmt, wk[w].result)]]
    /\ UNCHANGED <<db, schema, main, accepted, hist>>

\* The finally clause closes the connection, the with block releases the lock,
\* and the handler goes on with the result or the exception.
ExecuteExit(w) ==
    /\ wk[w].pc = "db_close"
    /\ conns' = conns \ {w}
    /\ lock' = Free
    /\ wk' = [wk EXCEPT ![w] =
                [@ EXCEPT !.pc = "send",
                          !.result = NoResult,
                          !.plan = AfterExecute(wk[w].stmt, wk[w].result)]]
    /\ UNCHANGED <<db, schema, main, accepted, hist>>

\* What follows a conn.sendall that raised, by the try block it ran in.
AfterSendError(plan) ==
    CASE plan.layer = "users" -> TopExcept(UsersExcept(Raise("users", "Broken pipe")))
      [] plan.layer \in {"users_except", "top"} -> TopExcept(Raise("top", "Broken pipe"))
      [] OTHER -> Return

\* conn.sendall: the response reaches a peer that reads; it raises otherwise.
SendResponse(w) ==
    /\ wk[w].pc = "send"
    /\ LET plan == wk[w].plan
           ok == wk[w].peer = "reads"
           after == AfterSendError(plan)
       IN  /\ wk' = [wk EXCEPT ![w] =
                    [@ EXCEPT !.sent = Append(@, [resp |-> plan.resp, ok |-> ok]),
                              !.plan = IF ok THEN plan ELSE after,
                              !.pc = IF ok \/ after.do = "return"
                                     THEN "close" ELSE "send"]]
           /\ hist' = [hist EXCEPT !.issued =
                    IF ok /\ plan.resp.status = 201
                    THEN Append(@, plan.resp.data.id) ELSE @]
    /\ UNCHANGED <<db, schema, lock, conns, main, accepted>>

\* The finally clause of handle_client: conn.close(); the thread ends.
Close(w) ==
    /\ wk[w].pc = "close"
    /\ wk' = [wk EXCEPT ![w] = Idle]
    /\ UNCHANGED <<db, schema, lock, conns, main, accepted, hist>>

(***************************************************************************)
(* The requests clients send.                                              *)
(***************************************************************************)
Req(method, target, body) ==
    [empty |-> FALSE, utf8 |-> TRUE,
     line |-> <<method, " ">> \o target \o <<" ", "HTTP/1.1">>,
     body |-> body]

Conn(raw) == [raw |-> raw, peer |-> "reads", disk |-> "ok"]

Fields(e, p, m) == Object([email |-> e, password |-> p, message |-> m])

UsersId(id) == <<"/users", "?", "id", "=">> \o id

\* The clients of the concurrent specification.
Clients ==
    { Conn(Req("POST", <<"/users">>, Fields(JStr("a"), JStr("p"), JStr("m")))),
      Conn(Req("POST", <<"/users">>, Fields(JNull, JStr("p"), JStr("m")))),
      Conn(Req("GET", <<"/users">>, NoBody)),
      Conn(Req("DELETE", UsersId(<<"1">>), NoBody)),
      Conn(Req("PATCH", UsersId(<<"1">>), Object([message |-> JStr("n")]))),
      Conn(Req("PATCH", UsersId(<<"1">>), Object([email |-> JNull]))),
      [Conn(Req("POST", <<"/users">>, Fields(JStr("b"), JStr("p"), JStr("m"))))
          EXCEPT !.peer = "gone"] }

UsersTargets ==
    { <<"/users">>, UsersId(<<"1">>), UsersId(<<"2">>), UsersId(<<>>),
      UsersId(<<"1", "=", "2">>), <<"/users", "?", "id">>,
      <<"/users", "?", "x", "=", "1", "&", "id", "=", "1">> }

OtherTargets ==
    { <<"/about">>, <<"/other">>, <<"/other", "?", "id", "=", "1">>,
      <<"/other", "?", "id", "=", "1", "=", "2">>, <<"/users", "/", "1">> }

Bodies ==
    { NoBody, EmptyBody, Malformed, Scalar,
      Fields(JStr("a"), JStr("p"), JStr("m")),
      Fields(JNum("7"), JStr("q"), JStr("m")),
      Fields(JStr("a"), JStr("p"), JNull),
      Fields(JStr("a"), JList, JStr("m")),
      Object([email |-> JStr("a"), password |-> JStr("p")]),
      Object([id |-> JNum("9"), message |-> JStr("n")]),
      Object([message |-> JNull]),
      Object([id |-> JNum("9")]) }

\* The clients of the sequential specification.
Requests ==
    {Conn(Req(m, t, b)) : m \in {"POST", "PATCH"}, t \in UsersTargets, b \in Bodies}
    \cup {Conn(Req(m, t, b)) : m \in {"GET", "DELETE", "PUT"}, t \in UsersTargets,
                               b \in {NoBody, Malformed}}
    \cup {Conn(Req(m, t, b)) : m \in {"GET", "POST", "DELETE", "PATCH", "PUT"},
                               t \in OtherTargets, b \in {NoBody, Malformed}}
    \cup { Conn(NoRaw),
           Conn([Req("GET", <<"/users">>, NoBody) EXCEPT !.utf8 = FALSE]),
           Conn([Req("GET", <<"/users">>, NoBody) EXCEPT !.line = <<"GET", " ", "/users">>]),
           Conn([Req("GET", <<"/users">>, NoBody) EXCEPT !.line = <<>>]),
           Conn([Req("POST", <<"/users">>, Fields(JStr("a"), JStr("p"), JStr("m")))
                    EXCEPT !.line = <<"POST", " ", "/users", " ", "HTTP/1.1", " ", "x">>]),
           [Conn(Req("POST", <<"/users">>, Fields(JStr("b"), JStr("p"), JStr("m"))))
               EXCEPT !.peer = "gone"],
           [Conn(Req("GET", <<"/other">>, NoBody)) EXCEPT !.peer = "gone"],
           [Conn(Req("POST", <<"/users">>, Fields(JStr("a"), JStr("p"), JNull)))
               EXCEPT !.peer = "gone"],
           [Conn(Req("GET", UsersId(<<"1">>), NoBody)) EXCEPT !.disk = "fails"],
           [Conn(Req("DELETE", UsersId(<<"1">>), NoBody)) EXCEPT !.disk = "fails"] }

WorkerStep(w) ==
    \/ ExecuteEnter(w)
    \/ ExecuteStmt(w)
    \/ ExecuteCommit(w)
    \/ ExecuteExit(w)
    \/ SendResponse(w)
    \/ Close(w)

Startup == InitDbEnter \/ InitDbExit \/ Listen

\* Concurrent workers, one connection each.
Next ==
    \/ Startup
    \/ Interrupt
    \/ Accept(Workers, NumWorkers)
    \/ \E w \in Workers : \E c \in Clients : Recv(w, c)
    \/ \E w \in Workers : WorkerStep(w)

Spec == Init /\ [][Next]_vars

\* Concurrent creations and list requests only, on an empty table; a slot freed
\* by a finished worker takes one more connection.
Creators ==
    { Conn(Req("POST", <<"/users">>, Fields(JStr("a"), JStr("p"), JStr("m")))),
      Conn(Req("GET", <<"/users">>, NoBody)) }

NextPosts ==
    \/ Startup
    \/ Interrupt
    \/ Accept(Workers, NumWorkers + 1)
    \/ \E w \in Workers : \E c \in Creators : Recv(w, c)
    \/ \E w \in Workers : WorkerStep(w)

SpecPosts == Init /\ [][NextPosts]_vars

\* Concurrent creations and deletions.
Deleters ==
    { Conn(Req("POST", <<"/users">>, Fields(JStr("a"), JStr("p"), JStr("m")))),
      Conn(Req("DELETE", UsersId(<<"1">>), NoBody)),
      Conn(Req("DELETE", UsersId(<<"2">>), NoBody)) }

NextIds ==
    \/ Startup
    \/ Interrupt
    \/ Accept(Workers, NumWorkers + 1)
    \/ \E w \in Workers : \E c \in Deleters : Recv(w, c)
    \/ \E w \in Workers : WorkerStep(w)

SpecIds == Init /\ [][NextIds]_vars

\* Concurrent workers on every path: success, validation error, parse error,
\* datastore error, failed socket write.
Contenders ==
    { Conn(Req("GET", <<"/users">>, NoBody)),
      Conn(Req("POST", <<"/users">>, Fields(JNull, JStr("p"), JStr("m")))),
      Conn(Req("POST", <<"/users">>, NoBody)),
      Conn([Req("GET", <<"/users">>, NoBody) EXCEPT !.line = <<"GET", " ", "/users">>]),
      [Conn(Req("GET", <<"/users">>, NoBody)) EXCEPT !.peer = "gone"] }

NextFair ==
    \/ Startup
    \/ Interrupt
    \/ Accept(Workers, NumWorkers)
    \/ \E w \in Workers : \E c \in Contenders : Recv(w, c)
    \/ \E w \in Workers : WorkerStep(w)

\* A thread that can run does run; a thread waiting for the lock gets it if the
\* lock is free again and again.  Nothing makes a peer send or a connection
\* arrive.
Fairness ==
    \A w \in Workers :
        /\ SF_vars(ExecuteEnter(w))
        /\ WF_vars(ExecuteStmt(w) \/ ExecuteCommit(w) \/ ExecuteExit(w)
                       \/ SendResponse(w) \/ Close(w))

SpecFair == Init /\ [][NextFair]_vars /\ Fairness

\* One connection at a time, any request.
NextSeq ==
    \/ Startup
    \/ Interrupt
    \/ Accept({1}, MaxRequests)
    \/ \E c \in Requests : Recv(1, c)
    \/ WorkerStep(1)

SpecSeq == Init /\ [][NextSeq]_vars

(***************************************************************************)
(* Properties.  A worker at "close" has written its last response and is   *)
(* about to close its connection: the exchange is complete.                *)
(***************************************************************************)
Finished(w) == wk[w].pc = "close"

\* The exchange went as the client sees it when nothing outside the program
\* fails: the peer read the answer and the disk worked.
Sound(w) == wk[w].peer = "reads" /\ wk[w].disk = "ok"

\* The one response the worker wrote, delivered.
Answer(w, status_code, content) ==
    wk[w].sent = <<[resp |-> Response(status_code, content), ok |-> TRUE]>>

Distinct(ids) == \A i, j \in 1..Len(ids) : i # j => ids[i] # ids[j]

\* C1: from an empty table, under every interleaving of concurrent creation
\* requests (and no other mutating request), every creation request is answered
\* 201, no two answers carry the same user_id, and a list request received after
\* all N creations were answered returns count = N and exactly the N users whose
\* ids were answered.
C1_ConcurrentCreates ==
    /\ Distinct(hist.issued)
    /\ \A w \in Workers :
        Finished(w) /\ wk[w].stmt.op = "insert" =>
            /\ Len(wk[w].sent) = 1
            /\ wk[w].sent[1].ok
            /\ wk[w].sent[1].resp.status = 201
            /\ wk[w].sent[1].resp.data.tag = "created"
    /\ \A w \in Workers :
        Finished(w) /\ wk[w].stmt.op = "select_all" /\ wk[w].seen = hist.posts =>
            /\ Len(wk[w].sent) = 1
            /\ wk[w].sent[1].ok
            /\ wk[w].sent[1].resp.status = 200
            /\ wk[w].sent[1].resp.data.tag = "list"
            /\ wk[w].sent[1].resp.data.count = hist.posts
            /\ Len(wk[w].sent[1].resp.data.rows) = hist.posts
            /\ {wk[w].sent[1].resp.data.rows[i].id : i \in 1..hist.posts}
                 = {hist.issued[i] : i \in 1..Len(hist.issued)}

\* Creations overlapped (the second user_id was answered before the first), all
\* were answered, and a list request that came after them is answered.
C1_Witness ==
    /\ hist.posts >= 2
    /\ Len(hist.issued) = hist.posts
    /\ hist.issued[1] > hist.issued[2]
    /\ \E w \in Workers :
        Finished(w) /\ wk[w].stmt.op = "select_all" /\ wk[w].seen = hist.posts

\* C2: at most one thread is inside a datastore call (its connection open) at
\* any time, and that thread holds the lock; this covers the schema-creation
\* call of the main thread.
C2_OneDatastoreCall ==
    /\ Cardinality(conns) <= 1
    /\ \A t \in conns : lock = t

\* A worker is inside a datastore call while another one waits for the lock.
C2_Witness ==
    \E w, v \in Workers : w \in conns /\ wk[v].pc = "db_wait"

(***************************************************************************)
(* The request a worker read, as the client wrote it.                      *)
(***************************************************************************)
ReqWords(w) == SplitWs(wk[w].raw.line)

\* Bytes that decode and a first line of three words.
WellFormed(w) == ~wk[w].raw.empty /\ wk[w].raw.utf8 /\ Len(ReqWords(w)) = 3

ReqMethod(w) == ReqWords(w)[1][1]

ReqPath(w) == SplitOnce(ReqWords(w)[2], "?")[1]

HasQuery(w) == HasTok(ReqWords(w)[2], "?")

ReqQuery(w) == IF HasQuery(w) THEN SplitOnce(ReqWords(w)[2], "?")[2] ELSE <<>>

\* The parameters the handlers are given, when parsing the query string succeeds.
Parsed(w) == Target(ReqWords(w)[2]).ok

ReqParams(w) == Target(ReqWords(w)[2]).parameters

OnUsers(w, methods) ==
    /\ Finished(w) /\ WellFormed(w)
    /\ ReqMethod(w) \in methods
    /\ ReqPath(w) = <<"/users">>

\* C3 as claimed: a GET by id of a user created by an answered POST, with no
\* PATCH or DELETE of that id in between, returns exactly the submitted email
\* and message.
C3_RoundTripExact ==
    \A w \in Workers :
        Finished(w) /\ Sound(w) /\ wk[w].stmt.op = "select_one" /\ wk[w].orig # <<>> =>
            Answer(w, 200, UserData([id |-> wk[w].orig[1].id,
                                     email |-> wk[w].orig[1].email,
                                     message |-> wk[w].orig[1].message]))

\* C3 amended: such a GET returns the id, and the submitted email and message as
\* the TEXT columns hold them: a submitted string unchanged, a submitted number
\* as the string of its digits.
C3_RoundTripAsText ==
    \A w \in Workers :
        Finished(w) /\ Sound(w) /\ wk[w].stmt.op = "select_one" /\ wk[w].orig # <<>> =>
            Answer(w, 200, UserData([id |-> wk[w].orig[1].id,
                                     email |-> JStr(wk[w].orig[1].email.v),
                                     message |-> JStr(wk[w].orig[1].message.v)]))

\* A user created from strings is fetched by its id.
C3_Witness ==
    \E w \in Workers :
        /\ Finished(w) /\ Sound(w) /\ wk[w].stmt.op = "select_one"
        /\ wk[w].orig # <<>>
        /\ wk[w].orig[1].email.t = "str" /\ wk[w].orig[1].message.t = "str"

\* C4: a DELETE with an id is answered 200, also when the id matches no record;
\* then the stored records are unchanged; after it no record has that id, so a
\* second DELETE of the same id finds the store as the first left it.
C4_DeleteIdempotent ==
    \A w \in Workers :
        Finished(w) /\ Sound(w) /\ wk[w].stmt.op = "delete" =>
            /\ Answer(w, 200, Confirm("deleted", wk[w].stmt.id))
            /\ ~wk[w].hit => ~wk[w].changed
            /\ \A r \in db.users : ~IdMatches(r, wk[w].stmt.id)

\* The DELETE of an id that was given to a user once and matches no record now.
C4_Witness ==
    \E w \in Workers :
        /\ Finished(w) /\ Sound(w) /\ wk[w].stmt.op = "delete" /\ ~wk[w].hit
        /\ AsInteger(wk[w].stmt.id) >= 1
        /\ AsInteger(wk[w].stmt.id) <= db.seq

\* C5: a POST or PATCH on /users whose body is malformed JSON is answered with
\* a 400 carrying an error, never with a 500, whatever its query string.  (The
\* claim also names the error's text, "Invalid JSON format"; this is the part of
\* it that the status alone decides.)
C5_MalformedJsonNever500 ==
    \A w \in Workers :
        /\ OnUsers(w, {"POST", "PATCH"})
        /\ wk[w].raw.body.kind = "malformed"
        /\ wk[w].peer = "reads"
        => /\ Len(wk[w].sent) = 1
           /\ wk[w].sent[1].resp.status = 400
           /\ wk[w].sent[1].resp.data.tag = "error"

\* C6 as claimed: a datastore call that fails is answered with the generic 500.
C6_StorageFailureIs500 ==
    \A w \in Workers :
        Finished(w) /\ wk[w].failed # "" /\ wk[w].peer = "reads" =>
            Answer(w, 500, Error("Internal server error"))

\* C6 amended: the except clause of _handle_users catches the failure of a
\* datastore call: the first response written is a 400 carrying the failure's
\* text, and the generic 500 is attempted only after that write failed.
C6_StorageFailureIs400 ==
    \A w \in Workers :
        Finished(w) /\ wk[w].failed # "" =>
            /\ Len(wk[w].sent) >= 1
            /\ wk[w].sent[1].resp = Response(400, Error(wk[w].failed))
            /\ wk[w].sent[1].ok => Len(wk[w].sent) = 1
            /\ \A i \in 2..Len(wk[w].sent) : wk[w].sent[i].resp.status = 500

\* A constraint failure answered to a peer that reads.
C6_Witness ==
    \E w \in Workers :
        /\ Finished(w) /\ wk[w].peer = "reads"
        /\ wk[w].failed = "NOT NULL constraint failed: users.message"

\* The record a lookup by id finds, as the response shows it.
Found(text) ==
    LET r == CHOOSE r \in db.users : IdMatches(r, text)
    IN  [id |-> r.id, email |-> r.email, message |-> r.message]

\* C7 as claimed: a GET that reaches the users handler with parameters holding
\* an id, whatever its value, the empty one included, looks up one record: 200
\* with the record that has the id, 404 "User not found" when there is none;
\* never the list.
C7_IdPresentLooksUpOne ==
    \A w \in Workers :
        /\ OnUsers(w, {"GET"}) /\ Sound(w)
        /\ Parsed(w) /\ IdKey \in DOMAIN ReqParams(w)
        => LET id == ReqParams(w)[IdKey]
           IN  IF \E r \in db.users : IdMatches(r, id)
               THEN Answer(w, 200, UserData(Found(id)))
               ELSE Answer(w, 404, Error("User not found"))

\* What a list request is answered: every record, in id order.
Listing ==
    LET all == SortById(db.users)
    IN  [i \in 1..Len(all) |->
            [id |-> all[i].id, email |-> all[i].email, message |-> all[i].message]]

\* C7 amended: a GET that reaches the users handler with parameters holding a
\* non-empty id looks up one record: 200 with the record that has the id, 404
\* "User not found" when there is none.  With an empty id, as with none, the
\* answer is the list of all users.
C7_NonEmptyIdLooksUpOne ==
    \A w \in Workers :
        OnUsers(w, {"GET"}) /\ Sound(w) /\ Parsed(w) =>
            LET id == Get(ReqParams(w), IdKey)
            IN  IF id.present /\ id.val # <<>>
                THEN IF \E r \in db.users : IdMatches(r, id.val)
                     THEN Answer(w, 200, UserData(Found(id.val)))
                     ELSE Answer(w, 404, Error("User not found"))
                ELSE Answer(w, 200, ListData(Listing))

\* A lookup that finds its record, with another parameter before the id.
C7_Witness ==
    \E w \in Workers :
        /\ OnUsers(w, {"GET"}) /\ Sound(w) /\ Parsed(w)
        /\ Get(ReqParams(w), IdKey).val # <<>>
        /\ Cardinality(DOMAIN ReqParams(w)) = 2
        /\ wk[w].hit

\* The parse C8 describes: pairs without "=" dropped; the key is the text before
\* the first "=", the value the text between the first "=" and the next.
TruncatingParse(params_str) ==
    LET kept  == SelectSeq(Split(params_str, "&"), HasEq)
        items == [i \in 1..Len(kept) |->
                    <<Split(kept[i], "=")[1], Split(kept[i], "=")[2]>>]
    IN  DictOf(items)

\* C8: parsing a query string never fails and yields the truncating parse, and
\* the request is dispatched: it is not answered with the generic 500.
C8_QueryParsingNeverFails ==
    \A w \in Workers :
        Finished(w) /\ WellFormed(w) /\ wk[w].peer = "reads" /\ wk[w].failed = "" =>
            /\ Parsed(w)
            /\ HasQuery(w) => ReqParams(w) = TruncatingParse(ReqQuery(w))
            /\ wk[w].sent[1].resp.status # 500

\* C9: a request whose path is neither /about nor /users is answered 404 "Path
\* not found", whatever its method, query string and body, and makes no
\* datastore call.
C9_OtherPathsAre404 ==
    \A w \in Workers :
        /\ Finished(w) /\ WellFormed(w) /\ wk[w].peer = "reads"
        /\ ReqPath(w) \notin {<<"/about">>, <<"/users">>}
        => /\ Answer(w, 404, Error("Path not found"))
           /\ wk[w].calls = 0

NonNull(cell) == cell.t # "null"

\* C10: no two stored records have the same id, every stored record has a
\* non-null email, password and message, and a POST or PATCH that supplies a null
\* for one of them leaves the table as it was.
C10_StoredRecordsValid ==
    /\ \A r, q \in db.users : r.id = q.id => r = q
    /\ \A r \in db.users : NonNull(r.email) /\ NonNull(r.password) /\ NonNull(r.message)
    /\ \A w \in Workers :
        /\ wk[w].pc \in {"db_close", "send", "close"}
        /\ wk[w].stmt.op \in {"insert", "update"}
        /\ NullColumns(wk[w].stmt.vals) # {}
        => ~wk[w].changed

\* A PATCH that supplies a null for the id of a stored record has come back
\* from the datastore, and the record is still stored.
C10_Witness ==
    /\ Cardinality(db.users) >= 1
    /\ \E w \in Workers :
        /\ wk[w].pc = "send"
        /\ wk[w].stmt.op = "update"
        /\ NullColumns(wk[w].stmt.vals) # {}
        /\ wk[w].hit

\* C11: the user_id a POST is answered with is greater than every user_id
\* answered before that POST was received, also when the records of those ids
\* have been deleted since; no user_id is answered twice.
C11_IdsIncrease ==
    /\ Distinct(hist.issued)
    /\ \A w \in Workers :
        /\ Finished(w) /\ wk[w].stmt.op = "insert"
        /\ wk[w].sent # <<>> /\ wk[w].sent[1].ok /\ wk[w].sent[1].resp.status = 201
        => wk[w].sent[1].resp.data.id > wk[w].floor

\* A POST is answered after the record of the largest id answered before it was
\* deleted, while another record is still stored.
C11_Witness ==
    \E w \in Workers :
        /\ Finished(w) /\ wk[w].stmt.op = "insert"
        /\ wk[w].sent # <<>> /\ wk[w].sent[1].ok /\ wk[w].sent[1].resp.status = 201
        /\ wk[w].floor >= 1
        /\ \A r \in db.users : r.id # wk[w].floor

\* The fields among email, password and message that a request's body supplies.
Supplied(w) == DOMAIN wk[w].raw.body.obj \cap {"email", "password", "message"}

\* What a PATCH of `id` supplying the columns `cols` may change from old to new.
PatchFrame(old, new, id, cols) ==
    /\ Cardinality(new.users) = Cardinality(old.users)
    /\ {r.id : r \in new.users} = {r.id : r \in old.users}
    /\ \A r \in old.users : ~IdMatches(r, id) => r \in new.users
    /\ \A r \in old.users : \A q \in new.users :
            r.id = q.id => \A c \in {"email", "password", "message"} \ cols :
                              q[c] = r[c]
    /\ (\A r \in old.users : ~IdMatches(r, id)) => new.users = old.users

\* C12: every step of a PATCH /users?id=k changes only the fields its body
\* supplies, and only in the record whose id is k: that record's id, its other
\* fields, every other record and the number of records stay; an `id` key in
\* the body is ignored; when no record has id k the store is unchanged.
C12_PatchChangesOnlySupplied ==
    [][\A w \in Workers :
          wk[w].stmt.op = "update" =>
              PatchFrame(db, db', wk[w].stmt.id, Supplied(w))]_vars

\* A PATCH whose body holds an `id` key and a message has changed one of two
\* stored records.
C12_Witness ==
    \E w \in Workers :
        /\ wk[w].pc = "db_close" /\ wk[w].stmt.op = "update"
        /\ "id" \in DOMAIN wk[w].raw.body.obj
        /\ wk[w].changed
        /\ Cardinality(db.users) = 2

\* A record as far as it is not its password.
Public(r) == [id |-> r.id, email |-> r.email, message |-> r.message]

PublicOf(store) == [users |-> {Public(r) : r \in store.users}, seq |-> store.seq]

Passwords == {JStr("p"), JStr("zz")}

\* The stores that differ from `store` in the password values of its records
\* at most.
Twins(store) ==
    { [users |-> {[r EXCEPT !.password = f[r]] : r \in store.users},
       seq |-> store.seq] : f \in [store.users -> Passwords] }

\* C13: whatever a datastore call is about to do, on every store that differs
\* from the current one only in the password values of its records the same
\* request leads to the same response (status and payload, error responses
\* included) and to a store that again differs only in password values; so two
\* runs on such stores that receive the same requests write the same responses.
C13_PasswordNotEchoed ==
    \A w \in Workers :
        wk[w].pc = "db_open" =>
            \A twin \in Twins(db) :
                LET here  == ExecutedOn(db, wk[w].stmt, wk[w].disk)
                    there == ExecutedOn(twin, wk[w].stmt, wk[w].disk)
                IN  /\ AfterExecute(wk[w].stmt, here) = AfterExecute(wk[w].stmt, there)
                    /\ PublicOf(here.db) = PublicOf(there.db)
                    /\ Cardinality(here.db.users) = Cardinality(there.db.users)

\* A lookup by id is about to read a record that another record stands next to.
C13_Witness ==
    \E w \in Workers :
        /\ wk[w].pc = "db_open" /\ wk[w].stmt.op = "select_one"
        /\ \E r \in db.users : IdMatches(r, wk[w].stmt.id)
        /\ Cardinality(db.users) = 2
        /\ Twins(db) # {db}

\* C14: a non-empty request whose first line is not exactly three words is
\* answered with the generic 500 and nothing else; no handler runs: no
\* datastore call is made and the store is not changed.
C14_BadRequestLineIs500 ==
    \A w \in Workers :
        /\ Finished(w)
        /\ ~wk[w].raw.empty /\ wk[w].raw.utf8 /\ Len(ReqWords(w)) # 3
        => /\ wk[w].calls = 0 /\ ~wk[w].changed /\ wk[w].stmt = NoStmt
           /\ Len(wk[w].sent) = 1
           /\ wk[w].sent[1].resp = Response(500, Error("Internal server error"))
           /\ wk[w].sent[1].ok = (wk[w].peer = "reads")

\* A request line of more than three words, on a request that would create a
\* user otherwise, has been answered while a record is stored.
C14_Witness ==
    \E w \in Workers :
        /\ Finished(w) /\ ~wk[w].raw.empty /\ wk[w].raw.utf8
        /\ Len(ReqWords(w)) > 3
        /\ wk[w].raw.body.kind = "object"
        /\ db.users # {}

C16_ErrorsChangeNothing ==
    \A w \in Workers :
        \A i \in 1..Len(wk[w].sent) :
            wk[w].sent[i].resp.status \in {400, 404, 405, 500} => ~wk[w].changed

\* C17: under fair scheduling, every worker whose read has returned closes its
\* connection and ends, on every path and under every interleaving; no thread
\* stays in the wait for the lock.
C17_WorkersTerminate ==
    \A w \in Workers :
        (wk[w].pc \notin {"idle", "recv"}) ~> (wk[w].pc = "idle")

\* A worker waits for the lock while the holder's statement has failed.
C17_Witness ==
    \E w, v \in Workers :
        /\ wk[w].pc = "db_wait"
        /\ wk[v].pc = "db_close" /\ wk[v].failed # ""

\* C18: a worker reads once and writes, or attempts to write, at most one
\* response on its connection, also when a handler raises or a write fails.
C18_AtMostOneWrite ==
    \A w \in Workers : Len(wk[w].sent) <= 1

InCall == {"db_open", "db_commit", "db_close"}

C20_EmptyReadIsSilent ==
    \A w \in Workers :
        wk[w].raw.empty /\ wk[w].pc \notin {"idle", "recv"} =>
            /\ wk[w].pc = "close"
            /\ wk[w].sent = <<>>
            /\ wk[w].calls = 0 /\ wk[w].stmt = NoStmt /\ ~wk[w].changed

\* An empty read on a connection accepted after a user was created.
C20_Witness ==
    \E w \in Workers :
        wk[w].raw.empty /\ wk[w].pc = "close" /\ db.users # {}

====
